---- MODULE Spec2Model ----
(***************************************************************************)
(* Model of the HHL linear solver, src/linear_solvers/hhl.py.              *)
(*                                                                         *)
(* State: one solver instance (its scaling attribute and its reciprocal-   *)
(* mode flag) together with the request and the outcome of the call that   *)
(* is being looked at.  Operations: construct_circuit, solve, and the      *)
(* assignment of the reciprocal mode.  Matrices, vectors and observables   *)
(* are abstracted to the attributes the code reads: kind, shape,           *)
(* hermiticity, declared ancillas, declared bounds.                        *)
(***************************************************************************)
EXTENDS Integers, Sequences, FiniteSets, TLC

\* ------------------------------------------------------------------ bounds
\* largest number of solution qubits of a vector circuit
MaxNb == 1
\* largest declared condition-number bound
MaxKappa == 3
\* largest number of ancillas a simulation circuit declares
MaxAnc == 1
\* longest list of observables passed to solve
MaxObs == 2

\* largest number of binary digits _get_delta is called with on its own
MaxBits == 24
\* number of times _get_delta is called with the same arguments
MaxCalls == 2

\* numeric vectors have 0 .. MaxVecLen entries, numeric matrices 1 .. MaxDim rows
MaxVecLen == MaxNb + 2
MaxDim == MaxNb + 2

\* ------------------------------------------------- small integer arithmetic
RECURSIVE Pow(_, _)
Pow(b, k) == IF k <= 0 THEN 1 ELSE b * Pow(b, k - 1)

AbsInt(i) == IF i < 0 THEN 0 - i ELSE i

MaxInt(i, j) == IF i >= j THEN i ELSE j

MinInt(i, j) == IF i <= j THEN i ELSE j

\* int(np.log2(n)) for n >= 1: the largest k with 2^k <= n
RECURSIVE FloorLog2(_)
FloorLog2(n) == IF n <= 1 THEN 0 ELSE 1 + FloorLog2(n \div 2)

\* np.log2(n) % 1 == 0 for n >= 1: n is a power of two (1 = 2^0 included)
IsPowerOfTwo(n) == n >= 1 /\ Pow(2, FloorLog2(n)) = n

\* int(np.ceil(np.log2(n))) for n >= 1: the least k with 2^k >= n
CeilLog2(n) == IF IsPowerOfTwo(n) THEN FloorLog2(n) ELSE FloorLog2(n) + 1

\* number of binary digits of k as format(k, "b") prints it ("0" for 0)
BitLen(k) == IF k <= 0 THEN 1 ELSE FloorLog2(k) + 1

\* ---------------------------------------------------------- real numbers
\* A real number is a decimal m * 10^e (|m| < 1000 for the bounds a matrix
\* declares; 2^24 occurs among the arguments of _get_delta), kept normalised (m not
\* a multiple of 10; zero is 0 * 10^0), so that equal numbers are equal records.
RECURSIVE Dec(_, _)
Dec(m, e) ==
    IF m = 0 THEN [m |-> 0, e |-> 0]
    ELSE IF m % 10 = 0 THEN Dec(m \div 10, e + 1)
    ELSE [m |-> m, e |-> e]

\* m * 10^d, saturating at +-10^9 (beyond every mantissa shifted by at most
\* six digits) when the shift exceeds six digits
Shift(m, d) ==
    IF m = 0 THEN 0
    ELSE IF d > 6 THEN (IF m < 0 THEN 0 - Pow(10, 9) ELSE Pow(10, 9))
    ELSE m * Pow(10, d)

\* the two mantissas of x and y over their common (smaller) exponent
Aligned(x, y) ==
    LET e0 == MinInt(x.e, y.e)
    IN  <<Shift(x.m, x.e - e0), Shift(y.m, y.e - e0)>>

DecLess(x, y) == Aligned(x, y)[1] < Aligned(x, y)[2]

DecAbs(x) == [m |-> AbsInt(x.m), e |-> x.e]

DecMax(x, y) == IF DecLess(x, y) THEN y ELSE x

DecDiv1000(x) == Dec(x.m, x.e - 3)

DecOne == Dec(1, 0)

\* the near-singularity threshold 1e-10 of construct_circuit
Tiny == Dec(1, -10)

\* ------------------------------------------------------------ the inputs
\* A vector argument: a circuit on n qubits, a numeric array of n entries, or
\* a value of any other type.
VectorCircuits == {[kind |-> "circuit", n |-> q] : q \in 0..MaxNb}

VectorArrays == {[kind |-> "array", n |-> l] : l \in 0..MaxVecLen}

OtherVector == [kind |-> "other", n |-> 0]

Vectors == VectorCircuits \cup VectorArrays \cup {OtherVector}

\* Eigenvalue bounds (lambda_min, lambda_max) a simulation circuit may declare;
\* <<>> stands for a circuit without eigs_bounds (or one returning None).
NoEigs == <<>>

EigsBounds ==
    { <<Dec(1, 0), Dec(2, 0)>>,      \* well conditioned
      <<Dec(0, 0), Dec(2, 0)>>,      \* singular: lambda_max / 1000 is substituted
      <<Dec(5, -11), Dec(1, -8)>>,   \* near singular: 1e-10 is substituted
      <<Dec(0, 0), Dec(0, 0)>> }     \* the zero matrix

\* What a simulation circuit declares: kappa = 0 stands for a circuit without
\* condition_bounds (or one returning None).
Spectra ==
    {[kappa |-> k, eigs |-> NoEigs] : k \in 0..MaxKappa}
        \cup {[kappa |-> 0, eigs |-> b] : b \in EigsBounds}

\* A matrix argument given as a circuit: its ancillas, whether it has a
\* tolerance attribute, and what it declares.
MatrixCircuits ==
    {[kind |-> "circuit", rows |-> 0, cols |-> 0, hermitian |-> TRUE,
      num_ancillas |-> a, has_tolerance |-> TRUE,
      kappa |-> s.kappa, eigs |-> s.eigs] : a \in 0..MaxAnc, s \in Spectra}
    \cup
    {[kind |-> "circuit", rows |-> 0, cols |-> 0, hermitian |-> TRUE,
      num_ancillas |-> 0, has_tolerance |-> FALSE, kappa |-> 0, eigs |-> NoEigs]}

\* The spectra of the numeric matrices of the model: a regular matrix and the
\* zero matrix.
ArraySpectra ==
    { [kappa |-> 2, eigs |-> <<Dec(1, 0), Dec(2, 0)>>],
      [kappa |-> 0, eigs |-> <<Dec(0, 0), Dec(0, 0)>>] }

\* A matrix argument given as a numeric array or list: its shape, whether it
\* equals its conjugate transpose (only a square matrix can), and its
\* spectrum.  The fields num_ancillas and has_tolerance are unused for an
\* array; NumPyMatrix below gives the circuit built from it.
MatrixArrays ==
    {m \in {[kind |-> "array", rows |-> r, cols |-> c, hermitian |-> h,
             num_ancillas |-> 0, has_tolerance |-> FALSE,
             kappa |-> s.kappa, eigs |-> s.eigs] :
                r \in 1..MaxDim, c \in 1..MaxDim,
                h \in BOOLEAN, s \in ArraySpectra} :
        /\ m.cols \in {m.rows, m.rows + 1}
        /\ m.hermitian => m.rows = m.cols
        /\ m.kappa = 0 => m.hermitian}

OtherMatrix ==
    [kind |-> "other", rows |-> 0, cols |-> 0, hermitian |-> FALSE,
     num_ancillas |-> 0, has_tolerance |-> FALSE, kappa |-> 0, eigs |-> NoEigs]

Matrices == MatrixCircuits \cup MatrixArrays \cup {OtherMatrix}

\* ------------------------------------------------------- EigenvalueScaler
\* _get_delta: lambda_min_tilde = |lambda_min * (2^n_l - 1) / lambda_max|, set
\* to 1 when within 1e-7 of 1; k = int(lambda_min_tilde) is printed on at least
\* n_l binary digits (format pads, it never truncates) and digit i is read with
\* weight 2^-(i+1).  The result is the fraction k / 2^bits.  A zero lambda_max
\* makes the division raise (ZeroDivisionError) or yield an infinity that int()
\* rejects (OverflowError): either way an ArithmeticError.
\* _get_delta scaling by 2^n_l where the code scales by 2^n_l - 1.
get_delta_full_scale(n_l, lambda_min, lambda_max) ==
    IF lambda_max.m = 0
    THEN [raised |-> TRUE, k |-> 0, bits |-> 0]
    ELSE LET d == lambda_min.e - lambda_max.e
             num == AbsInt(lambda_min.m) * Pow(2, n_l)
             den == AbsInt(lambda_max.m)
             N == IF d >= 0 THEN Shift(num, d) ELSE num
             D == IF d >= 0 THEN den ELSE Shift(den, 0 - d)
             near_one == AbsInt(N - D) < (D + Pow(10, 7) - 1) \div Pow(10, 7)
             k == IF near_one THEN 1 ELSE N \div D
         IN  [raised |-> FALSE, k |-> k, bits |-> MaxInt(n_l, BitLen(k))]

get_delta(n_l, lambda_min, lambda_max) ==
    IF lambda_max.m = 0
    THEN [raised |-> TRUE, k |-> 0, bits |-> 0]
    ELSE LET d == lambda_min.e - lambda_max.e
             num == AbsInt(lambda_min.m) * (Pow(2, n_l) - 1)
             den == AbsInt(lambda_max.m)
             N == IF d >= 0 THEN Shift(num, d) ELSE num
             D == IF d >= 0 THEN den ELSE Shift(den, 0 - d)
             \* |N/D - 1| < 1e-7
             near_one == AbsInt(N - D) < (D + Pow(10, 7) - 1) \div Pow(10, 7)
             k == IF near_one THEN 1 ELSE N \div D
         IN  [raised |-> FALSE, k |-> k, bits |-> MaxInt(n_l, BitLen(k))]

\* ----------------------------------------------------- ReciprocalSelector
\* int(round(num_values ** (2 / 3))): the integer a with
\* (2a - 1)^3 < 8 * num_values^2 < (2a + 1)^3 (no tie is possible)
RECURSIVE RoundFrom(_, _)
RoundFrom(num_values, a) ==
    IF 8 * num_values * num_values < Pow(2 * a + 1, 3)
    THEN a ELSE RoundFrom(num_values, a + 1)

BasePoint(num_values) == RoundFrom(num_values, 0)

\* int(np.ceil(np.log(n / a) / np.log(5))) for n, a >= 1: the least k with
\* a * 5^k >= n; it is zero or negative when a >= n
RECURSIVE CeilLog5Up(_, _, _)
CeilLog5Up(n, a, k) == IF a * Pow(5, k) >= n THEN k ELSE CeilLog5Up(n, a, k + 1)

RECURSIVE CeilLog5Down(_, _, _)
CeilLog5Down(n, a, j) ==
    IF n * Pow(5, j + 1) <= a THEN CeilLog5Down(n, a, j + 1) ELSE 0 - j

NumIntervals(num_values, a) ==
    IF a >= num_values - 1
    THEN CeilLog5Down(num_values - 1, a, 0)
    ELSE CeilLog5Up(num_values - 1, a, 0)

\* the loop of lines 461-468: a * 5^i for i < num_intervals, then num_values - 1
Breakpoints(num_values, a, num_intervals) ==
    IF num_intervals <= 0 THEN <<>>
    ELSE [i \in 1..(num_intervals + 1) |->
            IF i <= num_intervals THEN a * Pow(5, i - 1) ELSE num_values - 1]

\* Ancillas the piecewise Chebyshev circuit on nl state qubits declares: one
\* per state qubit.
ChebyshevAncillas(nl) == nl

\* ------------------------------------------------------- CircuitAssembler
\* the qubits reg[0], ..., reg[n-1] of a register
Qubits(reg, n) == [i \in 1..n |-> <<reg, i - 1>>]

Reverse(q) == [i \in 1..Len(q) |-> q[Len(q) + 1 - i]]

\* q[:n]
Prefix(q, n) == SubSeq(q, 1, MinInt(n, Len(q)))

NoLayout == [nb |-> 0, nl |-> 0, na |-> 0, nf |-> 0]

NoDelta == [k |-> 0, bits |-> 0]

\* The outcome of a construct_circuit call that raises: the exception, the
\* circuit objects the call had constructed by then, the solver's scaling (no
\* raise follows the write of line 426), and whether line 388 had set the
\* simulation circuit's tolerance.
Raise(error, what, created, scal, tolerance_set) ==
    [raised |-> TRUE, error |-> error, what |-> what, created |-> created,
     scaling |-> scal, scaling_written |-> FALSE, tolerance_set |-> tolerance_set,
     layout |-> NoLayout, delta |-> NoDelta, divisor |-> DecOne,
     breakpoints |-> <<>>, stages |-> <<>>]

\* Lines 354-356: initialize on nb qubits accepts a vector of 2^nb entries,
\* nb >= 1.  Lines 344-356, the vector argument.  A circuit is taken as it is; for an
\* array nb = int(log2(len)) (log2(0) is -inf, which int() rejects), a circuit on
\* nb qubits is created and initialize is called on it, which rejects a
\* parameter vector whose length is not 2^nb with nb >= 1.  For any other type
\* no branch is taken: nb and vector_circuit stay unbound.
Accepts(nb, length) == nb >= 1 /\ Pow(2, nb) = length

VectorStage(vector) ==
    IF vector.kind = "circuit"
    THEN [bound |-> TRUE, nb |-> vector.n, created |-> {},
          raised |-> FALSE, error |-> "", what |-> ""]
    ELSE IF vector.kind = "array"
    THEN IF vector.n = 0
         THEN [bound |-> FALSE, nb |-> 0, created |-> {},
               raised |-> TRUE, error |-> "OverflowError", what |-> "vector length"]
         ELSE [bound |-> TRUE, nb |-> FloorLog2(vector.n),
               created |-> {"vector_circuit"},
               raised |-> ~Accepts(FloorLog2(vector.n), vector.n),
               error |-> IF Accepts(FloorLog2(vector.n), vector.n) THEN ""
                         ELSE "QiskitError",
               what |-> IF Accepts(FloorLog2(vector.n), vector.n) THEN ""
                        ELSE "initialize"]
    ELSE [bound |-> FALSE, nb |-> 0, created |-> {},
          raised |-> FALSE, error |-> "", what |-> ""]

\* The simulation circuit NumPyMatrix builds from a validated numeric matrix: a
\* circuit without ancillas, with a settable tolerance, that declares the
\* condition number and the eigenvalue bounds of the matrix.
NumPyMatrix(matrix) ==
    [matrix EXCEPT !.kind = "circuit", !.num_ancillas = 0, !.has_tolerance = TRUE]

\* The matrix checks without the check of line 372: a matrix that is not
\* Hermitian passes.
MatrixStageNoHermitian(matrix, v) ==
    IF matrix.kind = "circuit"
    THEN [raised |-> FALSE, error |-> "", what |-> "", matrix_circuit |-> matrix,
          created |-> {}]
    ELSE IF matrix.kind = "array"
    THEN IF matrix.rows # matrix.cols
         THEN [raised |-> TRUE, error |-> "ValueError", what |-> "square",
               matrix_circuit |-> matrix, created |-> {}]
         ELSE IF ~IsPowerOfTwo(matrix.rows)
         THEN [raised |-> TRUE, error |-> "ValueError", what |-> "power of two",
               matrix_circuit |-> matrix, created |-> {}]
         ELSE IF ~v.bound
         THEN [raised |-> TRUE, error |-> "UnboundLocalError", what |-> "vector_circuit",
               matrix_circuit |-> matrix, created |-> {}]
         ELSE IF matrix.rows # Pow(2, v.nb)
         THEN [raised |-> TRUE, error |-> "ValueError", what |-> "dimension mismatch",
               matrix_circuit |-> matrix, created |-> {}]
         ELSE [raised |-> FALSE, error |-> "", what |-> "",
               matrix_circuit |-> NumPyMatrix(matrix), created |-> {"matrix_circuit"}]
    ELSE [raised |-> TRUE, error |-> "ValueError", what |-> "matrix type",
          matrix_circuit |-> matrix, created |-> {}]

\* The matrix checks with the simulation circuit built before the dimension is
\* compared with the vector's: it exists when the mismatch is raised.
MatrixStageBuildsFirst(matrix, v) ==
    IF matrix.kind = "circuit"
    THEN [raised |-> FALSE, error |-> "", what |-> "", matrix_circuit |-> matrix,
          created |-> {}]
    ELSE IF matrix.kind = "array"
    THEN IF matrix.rows # matrix.cols
         THEN [raised |-> TRUE, error |-> "ValueError", what |-> "square",
               matrix_circuit |-> matrix, created |-> {}]
         ELSE IF ~IsPowerOfTwo(matrix.rows)
         THEN [raised |-> TRUE, error |-> "ValueError", what |-> "power of two",
               matrix_circuit |-> matrix, created |-> {}]
         ELSE IF ~matrix.hermitian
         THEN [raised |-> TRUE, error |-> "ValueError", what |-> "hermitian",
               matrix_circuit |-> matrix, created |-> {}]
         ELSE IF ~v.bound
         THEN [raised |-> TRUE, error |-> "UnboundLocalError", what |-> "vector_circuit",
               matrix_circuit |-> matrix, created |-> {}]
         ELSE IF matrix.rows # Pow(2, v.nb)
         THEN [raised |-> TRUE, error |-> "ValueError", what |-> "dimension mismatch",
               matrix_circuit |-> matrix, created |-> {"matrix_circuit"}]
         ELSE [raised |-> FALSE, error |-> "", what |-> "",
               matrix_circuit |-> NumPyMatrix(matrix), created |-> {"matrix_circuit"}]
    ELSE [raised |-> TRUE, error |-> "ValueError", what |-> "matrix type",
          matrix_circuit |-> matrix, created |-> {}]

\* Lines 362-384, the matrix argument: the checks in the order of the code.
\* Line 374 reads vector_circuit, which is unbound for an unsupported vector.
MatrixStage(matrix, v) ==
    IF matrix.kind = "circuit"
    THEN [raised |-> FALSE, error |-> "", what |-> "", matrix_circuit |-> matrix,
          created |-> {}]
    ELSE IF matrix.kind = "array"
    THEN IF matrix.rows # matrix.cols
         THEN [raised |-> TRUE, error |-> "ValueError", what |-> "square",
               matrix_circuit |-> matrix, created |-> {}]
         ELSE IF ~IsPowerOfTwo(matrix.rows)
         THEN [raised |-> TRUE, error |-> "ValueError", what |-> "power of two",
               matrix_circuit |-> matrix, created |-> {}]
         ELSE IF ~matrix.hermitian
         THEN [raised |-> TRUE, error |-> "ValueError", what |-> "hermitian",
               matrix_circuit |-> matrix, created |-> {}]
         ELSE IF ~v.bound
         THEN [raised |-> TRUE, error |-> "UnboundLocalError", what |-> "vector_circuit",
               matrix_circuit |-> matrix, created |-> {}]
         ELSE IF matrix.rows # Pow(2, v.nb)
         THEN [raised |-> TRUE, error |-> "ValueError", what |-> "dimension mismatch",
               matrix_circuit |-> matrix, created |-> {}]
         ELSE [raised |-> FALSE, error |-> "", what |-> "",
               matrix_circuit |-> NumPyMatrix(matrix), created |-> {"matrix_circuit"}]
    ELSE [raised |-> TRUE, error |-> "ValueError", what |-> "matrix type",
          matrix_circuit |-> matrix, created |-> {}]

\* Lines 390-401, the eigenvalue register: kappa is the declared upper bound,
\* 1 without one.
Kappa(matrix_circuit) == IF matrix_circuit.kappa = 0 THEN 1 ELSE matrix_circuit.kappa

\* The register size without the qubit for negative eigenvalues.
RegisterNlNoNeg(nb, kappa, neg_vals) ==
    MaxInt(nb + 1, CeilLog2(kappa + 1))

RegisterNl(nb, kappa, neg_vals) ==
    MaxInt(nb + 1, CeilLog2(kappa + 1)) + (IF neg_vals THEN 1 ELSE 0)

\* Lines 410-416: a lambda_min below 1e-10 in magnitude is replaced.
SafeLambdaMin(lambda_min, lambda_max) ==
    IF DecLess(DecAbs(lambda_min), Tiny)
    THEN DecMax(Tiny, DecDiv1000(lambda_max))
    ELSE lambda_min

\* Lines 418-426: delta from _get_delta(nl - neg_vals, ...); then the evolution
\* time is divided by lambda_min and the solver's scaling becomes lambda_min.
ScaledBy(d, lambda_min, scal) ==
    IF d.raised
    THEN [raised |-> TRUE, delta |-> NoDelta, divisor |-> lambda_min,
          scaling |-> scal, written |-> FALSE]
    ELSE [raised |-> FALSE, delta |-> [k |-> d.k, bits |-> d.bits],
          divisor |-> lambda_min, scaling |-> lambda_min, written |-> TRUE]

WithBounds(n_l, lambda_min, lambda_max, scal) ==
    ScaledBy(get_delta(n_l, lambda_min, lambda_max), lambda_min, scal)

\* Lines 403-429, the eigenvalue scaling: with declared bounds delta comes from
\* _get_delta and the solver's scaling is overwritten by lambda_min; without
\* them delta = 1 / 2^nl and the scaling is left as it is.
ScalingStage(matrix_circuit, nl, neg_vals, scal) ==
    IF matrix_circuit.eigs # NoEigs
    THEN WithBounds(nl - (IF neg_vals THEN 1 ELSE 0),
                    SafeLambdaMin(matrix_circuit.eigs[1], matrix_circuit.eigs[2]),
                    matrix_circuit.eigs[2], scal)
    ELSE [raised |-> FALSE, delta |-> [k |-> 1, bits |-> nl], divisor |-> DecOne,
          scaling |-> scal, written |-> FALSE]

\* Lines 436-473: the approximate reciprocal on num_values = 2^nl values with
\* base point a.
Chebyshev(matrix_circuit, nl, num_values, a) ==
    [op |-> "chebyshev_reciprocal", num_ancillas |-> ChebyshevAncillas(nl),
     breakpoints |-> Breakpoints(num_values, a, NumIntervals(num_values, a)),
     na |-> MaxInt(matrix_circuit.num_ancillas, ChebyshevAncillas(nl))]

\* Lines 431-473: the reciprocal circuit and the ancilla count.
ReciprocalStage(exact, matrix_circuit, nl) ==
    IF exact
    THEN [op |-> "exact_reciprocal", num_ancillas |-> 0, breakpoints |-> <<>>,
          na |-> matrix_circuit.num_ancillas]
    ELSE Chebyshev(matrix_circuit, nl, Pow(2, nl), BasePoint(Pow(2, nl)))

\* Lines 487-488: state preparation on the solution register.
StatePreparation(qb) == [op |-> "state_preparation", qubits |-> qb]

\* Lines 489-496: phase estimation on ql + qb (+ the simulation circuit's ancillas).
PhaseEstimation(ql, qb, qa, na, matrix_anc) ==
    [op |-> "phase_estimation",
     qubits |-> IF na > 0 THEN ql \o qb \o Prefix(qa, matrix_anc) ELSE ql \o qb]

\* Lines 497-504: the conditioned rotation; the exact reciprocal reads ql reversed.
ConditionedRotation(exact, rec, ql, qa, qf) ==
    IF exact
    THEN [op |-> rec.op, qubits |-> Append(Reverse(ql), qf[1])]
    ELSE [op |-> rec.op, qubits |-> Append(ql, qf[1]) \o Prefix(qa, rec.num_ancillas)]

\* The inverse phase estimation on the eigenvalue and solution registers only.
InversePhaseEstimationNoAnc(ql, qb, qa, na, matrix_anc) ==
    [op |-> "phase_estimation_inverse", qubits |-> ql \o qb]

\* Lines 505-512: the inverse phase estimation.
InversePhaseEstimation(ql, qb, qa, na, matrix_anc) ==
    [op |-> "phase_estimation_inverse",
     qubits |-> IF na > 0 THEN ql \o qb \o Prefix(qa, matrix_anc) ELSE ql \o qb]

\* Lines 487-512: the four appended stages on the registers qb, ql, qa, qf.
Stages(exact, rec, matrix_anc, na, qb, ql, qa, qf) ==
    << StatePreparation(qb),
       PhaseEstimation(ql, qb, qa, na, matrix_anc),
       ConditionedRotation(exact, rec, ql, qa, qf),
       InversePhaseEstimation(ql, qb, qa, na, matrix_anc) >>

\* Lines 475-513: the registers and the circuit on them.
Assemble(exact, rec, matrix_anc, nb, nl, na, nf) ==
    Stages(exact, rec, matrix_anc, na,
           Qubits("qb", nb), Qubits("ql", nl), Qubits("qa", na), Qubits("qf", nf))

\* Lines 431-513: the reciprocal circuit rec is chosen, the registers are laid
\* out and the circuit is assembled and returned.
Assembled(exact, matrix_circuit, created, nb, nl, nf, sc, rec) ==
    [raised |-> FALSE, error |-> "", what |-> "",
     created |-> created \cup {"reciprocal_circuit", "qc", "pe_circuit"},
     scaling |-> sc.scaling, scaling_written |-> sc.written,
     tolerance_set |-> matrix_circuit.has_tolerance,
     layout |-> [nb |-> nb, nl |-> nl, na |-> rec.na, nf |-> nf],
     delta |-> sc.delta, divisor |-> sc.divisor,
     breakpoints |-> rec.breakpoints,
     stages |-> Assemble(exact, rec, matrix_circuit.num_ancillas, nb, nl, rec.na, nf)]

\* Lines 403-513, once the eigenvalue scaling sc is computed.
AfterScaling(scal, exact, matrix_circuit, created, nb, nl, nf, sc) ==
    IF sc.raised
    THEN Raise("ArithmeticError", "_get_delta", created, scal,
               matrix_circuit.has_tolerance)
    ELSE Assembled(exact, matrix_circuit, created, nb, nl, nf, sc,
                   ReciprocalStage(exact, matrix_circuit, nl))

\* Lines 398-513, once the eigenvalue register size nl is computed.
AfterRegisters(scal, exact, matrix_circuit, created, neg_vals, nb, nl, nf) ==
    AfterScaling(scal, exact, matrix_circuit, created, nb, nl, nf,
                 ScalingStage(matrix_circuit, nl, neg_vals, scal))

\* Lines 386-513, once the matrix argument is handled (outcome m).  Line 388
\* sets the tolerance; line 401 reads nb, unbound for an unsupported vector.
AfterMatrix(scal, exact, neg_vals, v, m, nf) ==
    IF m.raised
    THEN Raise(m.error, m.what, v.created \cup m.created, scal, FALSE)
    ELSE IF ~v.bound
    THEN Raise("UnboundLocalError", "nb", v.created \cup m.created, scal,
               m.matrix_circuit.has_tolerance)
    ELSE AfterRegisters(scal, exact, m.matrix_circuit, v.created \cup m.created,
                        neg_vals, v.nb,
                        RegisterNl(v.nb, Kappa(m.matrix_circuit), neg_vals), nf)

\* Lines 358-513, once the vector argument is handled (outcome v); nf = 1.
AfterVector(scal, exact, matrix, neg_vals, v) ==
    IF v.raised
    THEN Raise(v.error, v.what, v.created, scal, FALSE)
    ELSE AfterMatrix(scal, exact, neg_vals, v, MatrixStage(matrix, v), 1)

\* construct_circuit, lines 344-513, on a solver whose scaling is scal and whose
\* reciprocal mode is exact.  The simulation circuit passed as a matrix is taken
\* to act on the vector's qubits.
construct_circuit(scal, exact, matrix, vector, neg_vals) ==
    AfterVector(scal, exact, matrix, neg_vals, VectorStage(vector))

\* ------------------------------------------------------------ observables
\* A semantic observable: its name, and whether its extraction circuit (and its
\* operator) is a single one or a list of n of them.
Observables ==
    { [id |-> "average", is_list |-> FALSE, n |-> 1],
      [id |-> "functional", is_list |-> TRUE, n |-> 2] }

RECURSIVE SeqsUpTo(_, _)
SeqsUpTo(S, n) ==
    IF n = 0 THEN {<<>>}
    ELSE SeqsUpTo(S, n - 1) \cup
         {Append(q, x) : q \in {p \in SeqsUpTo(S, n - 1) : Len(p) = n - 1}, x \in S}

\* The observable argument of solve: None, one observable, or a list of them.
NoObservable == [kind |-> "none", items |-> <<>>]

ObservableArgs ==
    {NoObservable}
        \cup {[kind |-> "single", items |-> <<o>>] : o \in Observables}
        \cup {[kind |-> "list", items |-> q] : q \in SeqsUpTo(Observables, MaxObs)}

\* observable_circuit: None or one circuit; post_processing: None or a function
CircuitArgs == {"none", "circuit"}

FunctionArgs == {"none", "function"}

\* The (observable, observable_circuit, post_processing) triples of the model:
\* every observable argument alone, and every combination of the other two
\* with no observable, with one, and with a list of at most one.
Requests ==
    {<<o, "none", "none">> : o \in ObservableArgs}
        \cup {<<o, c, f>> : o \in {x \in ObservableArgs : Len(x.items) <= 1
                                        /\ \A i \in 1..Len(x.items) : ~x.items[i].is_list},
                            c \in CircuitArgs, f \in FunctionArgs}

\* ----------------------------------------------------------- NormEstimator
\* An operator on the circuit's qubits is the sequence of its tensor factors,
\* leftmost first; a.tensor(b) puts b on the lower qubits, so the factor at
\* position p acts on qubit num_qubits - p of the circuit (qb, ql, [qa], qf).
NumQubits(layout) == layout.nb + layout.nl + layout.na + layout.nf

\* Lines 213-223: one_op for i = 0 and zero_op for every other i.
NormOperator(num_qubits) ==
    [i \in 1..num_qubits |-> IF i = 1 THEN "one" ELSE "zero"]

\* _calculate_norm, lines 199-226: the operator and the scaling the norm is
\* sqrt(<operator>) / scaling of.
calculate_norm(layout, scal) ==
    [operator |-> NormOperator(NumQubits(layout)), scaling |-> scal]

\* ------------------------------------------------------ ObservableEvaluator
\* Lines 283-289: one_op, then nl + na zero_ops, then the observable's operator
\* on the nb solution qubits.
ObservableOperator(layout, factor) ==
    <<"one">> \o [i \in 1..(layout.nl + layout.na) |-> "zero"]
              \o [i \in 1..layout.nb |-> factor]

\* Lines 277-292 and 316: the expectation of each (circuit, operator) pair of
\* the observable, named by the observable, the circuit's index and the operator
\* measured; a list when the observable's circuits are a list.
Expectations(layout, obs, factor) ==
    [shape |-> IF obs.is_list THEN "list" ELSE "single",
     items |-> [j \in 1..obs.n |->
                  [observable |-> obs.id, circuit |-> j,
                   operator |-> ObservableOperator(layout, factor)]]]

\* Line 319: post_processing(expectation_results, nb, scaling); None is not
\* callable.
PostProcess(function, expectation_results, nb, scal) ==
    IF function = "none"
    THEN [raised |-> TRUE, value |-> <<>>, expectation_results |-> expectation_results]
    ELSE [raised |-> FALSE,
          value |-> <<[function |-> function, of |-> expectation_results,
                       nb |-> nb, scaling |-> scal]>>,
          expectation_results |-> expectation_results]

\* _calculate_observable, lines 250-321, without an expectation converter or a
\* sampler (the constructor's setting).  A given observable brings its own
\* circuits, operator and post-processing; without one the operator is the
\* identity and the circuit and function passed are used.
calculate_observable(layout, scal, ls_observable, observable_circuit, post_processing) ==
    IF ls_observable.kind # "none"
    THEN PostProcess(ls_observable.items[1].id,
                     Expectations(layout, ls_observable.items[1],
                                  ls_observable.items[1].id),
                     layout.nb, scal)
    ELSE PostProcess(post_processing,
                     Expectations(layout,
                                  [id |-> "identity", is_list |-> FALSE, n |-> 1], "I"),
                     layout.nb, scal)

\* ------------------------------------------------------------ Orchestrator
Unset == [shape |-> "unset", items |-> <<>>]

NoSolution ==
    [state |-> FALSE, euclidean_norm |-> <<>>,
     observable |-> Unset, circuit_results |-> Unset]

\* the outcome record of a call in which construct_circuit was not entered
NoConstruct(scal) == Raise("", "", {}, scal, FALSE)

\* The entry check with "and" for "or": only all three arguments together conflict.
ConflictNeedsBoth(observable, observable_circuit, post_processing) ==
    observable.kind # "none"
        /\ observable_circuit # "none" /\ post_processing # "none"

\* Lines 553-557: the entry check of solve.
Conflict(observable, observable_circuit, post_processing) ==
    observable.kind # "none"
        /\ (observable_circuit # "none" \/ post_processing # "none")

\* The values and the raw results of a list, last observable first.
CollectedReversed(each) ==
    [raised |-> \E i \in 1..Len(each) : each[i].raised,
     observable |-> [shape |-> "list",
                     items |-> [i \in 1..Len(each) |-> each[Len(each) + 1 - i].value]],
     circuit_results |-> [shape |-> "list",
                     items |-> [i \in 1..Len(each) |->
                                   each[Len(each) + 1 - i].expectation_results]]]

\* Lines 564-572: the values and the raw results of a list, in its order.
Collected(each) ==
    [raised |-> \E i \in 1..Len(each) : each[i].raised,
     observable |-> [shape |-> "list",
                     items |-> [i \in 1..Len(each) |-> each[i].value]],
     circuit_results |-> [shape |-> "list",
                     items |-> [i \in 1..Len(each) |-> each[i].expectation_results]]]

\* Lines 574-576: the value and the raw result of one evaluation.
Single(one) ==
    [raised |-> one.raised,
     observable |-> [shape |-> "single", items |-> <<one.value>>],
     circuit_results |-> one.expectation_results]

\* Lines 563-577: the observable part of solve on the assembled circuit.  A
\* list is evaluated element by element, in order; one observable, or a raw
\* circuit, is evaluated once; with neither, nothing is evaluated.
Evaluate(layout, scal, observable, observable_circuit, post_processing) ==
    IF observable.kind = "list"
    THEN Collected([i \in 1..Len(observable.items) |->
                        calculate_observable(layout, scal,
                            [kind |-> "single", items |-> <<observable.items[i]>>],
                            observable_circuit, post_processing)])
    ELSE IF observable.kind # "none" \/ observable_circuit # "none"
    THEN Single(calculate_observable(layout, scal, observable,
                                     observable_circuit, post_processing))
    ELSE [raised |-> FALSE, observable |-> Unset, circuit_results |-> Unset]

\* Lines 559-578, once the observables are evaluated (outcome ev).
Packaged(cc, norm, ev) ==
    IF ev.raised
    THEN [raised |-> TRUE, error |-> "TypeError", what |-> "post_processing",
          constructed |-> TRUE, construct |-> cc, solution |-> NoSolution]
    ELSE [raised |-> FALSE, error |-> "", what |-> "",
          constructed |-> TRUE, construct |-> cc,
          solution |-> [state |-> TRUE, euclidean_norm |-> <<norm>>,
                        observable |-> ev.observable,
                        circuit_results |-> ev.circuit_results]]

\* Lines 560-578, once construct_circuit has ended (outcome cc): its exception
\* propagates; otherwise the norm, then the observables.
AfterConstruct(cc, observable, observable_circuit, post_processing) ==
    IF cc.raised
    THEN [raised |-> TRUE, error |-> cc.error, what |-> cc.what,
          constructed |-> TRUE, construct |-> cc, solution |-> NoSolution]
    ELSE Packaged(cc, calculate_norm(cc.layout, cc.scaling),
                  Evaluate(cc.layout, cc.scaling, observable,
                           observable_circuit, post_processing))

\* solve, lines 552-578, on a solver whose scaling is scal and whose reciprocal
\* mode is exact: the entry check, construct_circuit (with its default
\* neg_vals = True), the norm, the observables, the returned result.
solve(scal, exact, matrix, vector, observable, observable_circuit, post_processing) ==
    IF Conflict(observable, observable_circuit, post_processing)
    THEN [raised |-> TRUE, error |-> "ValueError", what |-> "request conflict",
          constructed |-> FALSE, construct |-> NoConstruct(scal),
          solution |-> NoSolution]
    ELSE AfterConstruct(construct_circuit(scal, exact, matrix, vector, TRUE),
                        observable, observable_circuit, post_processing)

VARIABLES scaling, exact_reciprocal, pc, req, res

vars == <<scaling, exact_reciprocal, pc, req, res>>

\* ------------------------------------------------------------------- state
\* scaling, exact_reciprocal: the solver's attributes of the same names.
\* pc: "idle" between calls, "done" when a call has ended and its outcome is
\* held.  req: the call made.  res: its outcome.
NoReq ==
    [op |-> "none", matrix |-> OtherMatrix, vector |-> OtherVector,
     neg_vals |-> TRUE, observable |-> NoObservable,
     observable_circuit |-> "none", post_processing |-> "none",
     scaling_before |-> DecOne]

NoRes ==
    [raised |-> FALSE, error |-> "", what |-> "", constructed |-> FALSE,
     construct |-> NoConstruct(DecOne), solution |-> NoSolution]

\* __init__, lines 108-124: scaling is 1 and the reciprocal is the exact one.
Init ==
    /\ scaling = DecOne
    /\ exact_reciprocal = TRUE
    /\ pc = "idle"
    /\ req = NoReq
    /\ res = NoRes

\* A call of construct_circuit(matrix, vector, neg_vals).
Construct(matrix, vector, neg_vals) ==
    /\ pc = "idle"
    /\ \E cc \in {construct_circuit(scaling, exact_reciprocal, matrix, vector, neg_vals)} :
           /\ scaling' = cc.scaling
           /\ res' = [raised |-> cc.raised, error |-> cc.error, what |-> cc.what,
                      constructed |-> TRUE, construct |-> cc, solution |-> NoSolution]
    /\ req' = [NoReq EXCEPT !.op = "construct_circuit", !.matrix = matrix,
                            !.vector = vector, !.neg_vals = neg_vals,
                            !.scaling_before = scaling]
    /\ pc' = "done"
    /\ UNCHANGED exact_reciprocal

\* A call of solve(matrix, vector, observable, observable_circuit, post_processing).
Solve(matrix, vector, observable, observable_circuit, post_processing) ==
    /\ pc = "idle"
    /\ \E r \in {solve(scaling, exact_reciprocal, matrix, vector,
                       observable, observable_circuit, post_processing)} :
           /\ scaling' = r.construct.scaling
           /\ res' = r
    /\ req' = [NoReq EXCEPT !.op = "solve", !.matrix = matrix, !.vector = vector,
                            !.observable = observable,
                            !.observable_circuit = observable_circuit,
                            !.post_processing = post_processing,
                            !.scaling_before = scaling]
    /\ pc' = "done"
    /\ UNCHANGED exact_reciprocal

\* The reciprocal mode is switched (the attribute of line 122 is assigned).
SetExactReciprocal(b) ==
    /\ pc = "idle"
    /\ b # exact_reciprocal
    /\ exact_reciprocal' = b
    /\ UNCHANGED <<scaling, pc, req, res>>

\* The caller lets go of the outcome of the call; the solver keeps its state.
Release ==
    /\ pc = "done"
    /\ pc' = "idle"
    /\ req' = NoReq
    /\ res' = NoRes
    /\ UNCHANGED <<scaling, exact_reciprocal>>

Next ==
    \/ \E matrix \in Matrices, vector \in Vectors, neg_vals \in BOOLEAN :
            Construct(matrix, vector, neg_vals)
    \/ \E matrix \in Matrices, vector \in Vectors, r \in Requests :
            Solve(matrix, vector, r[1], r[2], r[3])
    \/ \E b \in BOOLEAN : SetExactReciprocal(b)
    \/ Release

Spec == Init /\ [][Next]_vars

\* ------------------------------------------------- _get_delta on its own
\* The arguments _get_delta is called with: 1 .. MaxBits binary digits and a
\* pair (lambda_min, lambda_max): the ratios 1/2, 1, 1/3, 2/3, 3/4, a negative
\* lambda_min, a near-singular pair, the ratio 2^-24, a lambda_min above
\* lambda_max, and a zero lambda_max.
DeltaBounds ==
    { <<Dec(1, 0), Dec(2, 0)>>, <<Dec(1, 0), Dec(1, 0)>>,
      <<Dec(1, 0), Dec(3, 0)>>, <<Dec(2, 0), Dec(3, 0)>>,
      <<Dec(3, 0), Dec(4, 0)>>, <<Dec(0 - 1, 0), Dec(2, 0)>>,
      <<Dec(1, -10), Dec(1, -8)>>,
      <<Dec(1, 0), Dec(Pow(2, 24), 0)>>,
      <<Dec(3, 0), Dec(1, 0)>>,
      <<Dec(1, -10), Dec(0, 0)>> }

DeltaRequests ==
    {[op |-> "_get_delta", n_l |-> n, lambda_min |-> b[1], lambda_max |-> b[2]] :
        n \in 1..MaxBits, b \in DeltaBounds}

\* the outcome of a _get_delta call not made yet
NoDeltaRes ==
    [raised |-> FALSE, k |-> 0, bits |-> 0, calls |-> 0,
     previous |-> [raised |-> FALSE, k |-> 0, bits |-> 0]]

\* a solver as constructed, about to call _get_delta with some arguments
DeltaInit ==
    /\ scaling = DecOne
    /\ exact_reciprocal = TRUE
    /\ pc = "idle"
    /\ req \in DeltaRequests
    /\ res = NoDeltaRes

\* _get_delta, lines 168-188, called with the arguments of req
GetDelta ==
    /\ pc = "idle"
    /\ \E d \in {get_delta(req.n_l, req.lambda_min, req.lambda_max)} :
           res' = [raised |-> d.raised, k |-> d.k, bits |-> d.bits, calls |-> 1,
                   previous |-> d]
    /\ pc' = "done"
    /\ UNCHANGED <<scaling, exact_reciprocal, req>>

\* _get_delta called once more with the same arguments
GetDeltaAgain ==
    /\ pc = "done"
    /\ res.calls < MaxCalls
    /\ \E d \in {get_delta(req.n_l, req.lambda_min, req.lambda_max)} :
           res' = [raised |-> d.raised, k |-> d.k, bits |-> d.bits,
                   calls |-> res.calls + 1,
                   previous |-> [raised |-> res.raised, k |-> res.k, bits |-> res.bits]]
    /\ UNCHANGED <<scaling, exact_reciprocal, pc, req>>

DeltaNext == GetDelta \/ GetDeltaAgain

DeltaSpec == DeltaInit /\ [][DeltaNext]_vars

\* ------------------------------------------------------------------ claims
\* a call has ended and its outcome is held
Done == pc = "done"

\* the call that ended entered construct_circuit
Entered == Done /\ res.constructed

\* the call that ended returned (a circuit, or a result)
Returned == Done /\ res.constructed /\ ~res.raised

\* C1: solve raises the request-conflict ValueError whenever observable is not
\* None and observable_circuit or post_processing is not None; construct_circuit
\* is not entered, so no circuit is built, no result is produced and the
\* solver's scaling is what it was before the call.
C1_ConflictRejected ==
    (Done /\ req.op = "solve" /\ req.observable.kind # "none"
          /\ (req.observable_circuit # "none" \/ req.post_processing # "none"))
    => /\ res.raised
       /\ res.error = "ValueError"
       /\ res.what = "request conflict"
       /\ ~res.constructed
       /\ res.construct.created = {}
       /\ res.construct.stages = <<>>
       /\ res.solution = NoSolution
       /\ scaling = req.scaling_before

\* a conflicting request on a system whose construction would have succeeded
\* and rewritten the scaling, on a solver whose scaling is still 1
C1_Witness ==
    /\ Done /\ req.op = "solve"
    /\ req.observable.kind = "single"
    /\ req.observable_circuit = "none" /\ req.post_processing = "function"
    /\ req.matrix.kind = "circuit"
    /\ req.matrix.eigs = <<Dec(0, 0), Dec(2, 0)>>
    /\ req.vector.kind = "circuit"
    /\ res.raised
    /\ scaling = DecOne

\* the vector has a qubit count: a circuit's num_qubits, an array's int(log2(len))
HasQubitCount(vector) ==
    vector.kind = "circuit" \/ (vector.kind = "array" /\ vector.n >= 1)

VectorQubits(vector) ==
    IF vector.kind = "circuit" THEN vector.n ELSE FloorLog2(vector.n)

\* the matrix is square, of power-of-two dimension, Hermitian, and of dimension
\* 2^(qubit count of the vector)
FourConditions(matrix, vector) ==
    /\ matrix.rows = matrix.cols
    /\ IsPowerOfTwo(matrix.rows)
    /\ matrix.hermitian
    /\ HasQubitCount(vector)
    /\ matrix.rows = Pow(2, VectorQubits(vector))

\* the vector is a circuit, or an array that state preparation accepts
VectorAccepted(vector) ==
    \/ vector.kind = "circuit"
    \/ /\ vector.kind = "array"
       /\ vector.n >= 1
       /\ Accepts(FloorLog2(vector.n), vector.n)

InputError ==
    /\ Entered
    /\ res.construct.raised
    /\ res.construct.error \in {"ValueError", "UnboundLocalError"}

\* C3 as claimed: when an input error is raised no circuit object has been
\* created and the solver's scaling has not been written.
C3_Original ==
    InputError
    => /\ res.construct.created = {}
       /\ ~res.construct.scaling_written
       /\ scaling = req.scaling_before

\* C3 as amended: when an input error is raised, no simulation circuit, no
\* reciprocal circuit, no phase estimation and no assembled circuit has been
\* created and the solver's scaling has not been written; the only circuit
\* object that can exist is the state-preparation circuit of a vector given as
\* an array, which is built before the matrix is examined.
C3_Amended ==
    InputError
    => /\ res.construct.created \subseteq {"vector_circuit"}
       /\ "vector_circuit" \in res.construct.created <=> req.vector.kind = "array"
       /\ res.construct.stages = <<>>
       /\ ~res.construct.scaling_written
       /\ scaling = req.scaling_before

\* a matrix that is not Hermitian with an array vector, on a solver whose
\* scaling an earlier call has set: the error is raised after the
\* state-preparation circuit was made
C3_Witness ==
    /\ InputError
    /\ res.construct.what = "hermitian"
    /\ req.vector.kind = "array"
    /\ res.construct.created = {"vector_circuit"}
    /\ scaling # DecOne

\* C4: a matrix or a vector that is neither an array nor a circuit makes
\* construct_circuit raise the unsupported-type ValueError for that argument,
\* whatever the other argument is, and no other error.
C4_UnsupportedType ==
    (Entered /\ (req.matrix.kind = "other" \/ req.vector.kind = "other"))
    => /\ res.construct.raised
       /\ res.construct.error = "ValueError"
       /\ res.construct.what \in {"matrix type", "vector type"}
       /\ res.construct.what = "matrix type" => req.matrix.kind = "other"
       /\ res.construct.what = "vector type" => req.vector.kind = "other"

\* construct_circuit has returned a circuit
Built == Entered /\ ~res.construct.raised

\* the least m >= nb + 1 with 2^m >= kappa + 1
LeastBits(nb, kappa) ==
    CHOOSE m \in 0..(nb + kappa + 1) :
        /\ m >= nb + 1
        /\ Pow(2, m) >= kappa + 1
        /\ \A j \in 0..(m - 1) : j < nb + 1 \/ Pow(2, j) < kappa + 1

\* the same call with neg_vals the other way
Toggled ==
    construct_circuit(req.scaling_before, exact_reciprocal,
                      req.matrix, req.vector, ~req.neg_vals)

\* C5: the eigenvalue register has nl = max(nb+1, ceil(log2(kappa+1))) qubits,
\* plus one when neg_vals is set, kappa being 1 when the matrix declares no
\* bound; so nl >= nb+1, and with nb and kappa fixed nl is exactly one larger
\* with neg_vals than without.
C5_RegisterSize ==
    Built
    => /\ res.construct.layout.nl
            = LeastBits(res.construct.layout.nb, Kappa(req.matrix))
                + (IF req.neg_vals THEN 1 ELSE 0)
       /\ res.construct.layout.nl >= res.construct.layout.nb + 1
       /\ ~Toggled.raised
       /\ Toggled.layout.nl
            = res.construct.layout.nl + (IF req.neg_vals THEN 0 - 1 ELSE 1)

\* the condition-number term decides: nb = 0, kappa = 3, negative eigenvalues
C5_Witness ==
    /\ Built /\ req.op = "construct_circuit"
    /\ res.construct.layout.nb = 0
    /\ Kappa(req.matrix) = 3
    /\ req.neg_vals
    /\ res.construct.layout.nl = 3

\* C6: a returned circuit is exactly four appended stages, each once and in
\* this order: state preparation on the solution register, phase estimation,
\* the conditioned rotation of the reciprocal mode in force, inverse phase
\* estimation on the same ordered qubits as the forward one; nothing is
\* skipped or repeated in either mode, with or without ancillas, and no
\* measurement is appended.
C6_FourStages ==
    Built
    => /\ Len(res.construct.stages) = 4
       /\ res.construct.stages[1].op = "state_preparation"
       /\ res.construct.stages[1].qubits = Qubits("qb", res.construct.layout.nb)
       /\ res.construct.stages[2].op = "phase_estimation"
       /\ res.construct.stages[3].op
            = (IF exact_reciprocal THEN "exact_reciprocal" ELSE "chebyshev_reciprocal")
       /\ res.construct.stages[4].op = "phase_estimation_inverse"
       /\ res.construct.stages[4].qubits = res.construct.stages[2].qubits
       /\ \A i \in 1..4 : res.construct.stages[i].op # "measure"

\* the approximate reciprocal, with an ancilla register that the matrix
\* circuit uses too
C6_Witness ==
    /\ Built
    /\ ~exact_reciprocal
    /\ res.construct.layout.na > 0
    /\ req.matrix.kind = "circuit" /\ req.matrix.num_ancillas = 1
    /\ Len(res.construct.stages[2].qubits)
         = res.construct.layout.nl + res.construct.layout.nb + 1

\* solve has returned a result
Solved == Done /\ req.op = "solve" /\ ~res.raised

\* the result of a list request: two lists as long as the request, the i-th
\* entries being the value and the raw expectations of the i-th observable
ListShape ==
    /\ res.solution.observable.shape = "list"
    /\ res.solution.circuit_results.shape = "list"
    /\ Len(res.solution.observable.items) = Len(req.observable.items)
    /\ Len(res.solution.circuit_results.items) = Len(req.observable.items)
    /\ \A i \in 1..Len(req.observable.items) :
          /\ res.solution.observable.items[i][1].function = req.observable.items[i].id
          /\ res.solution.observable.items[i][1].of = res.solution.circuit_results.items[i]
          /\ Len(res.solution.circuit_results.items[i].items) = req.observable.items[i].n
          /\ \A j \in 1..req.observable.items[i].n :
                res.solution.circuit_results.items[i].items[j].observable
                    = req.observable.items[i].id

\* one evaluation was requested: one observable, or a raw circuit
OneRequested ==
    /\ req.observable.kind # "list"
    /\ (req.observable.kind = "single" \/ req.observable_circuit # "none")

\* C7 as claimed: for a list of k observables both solution.observable and
\* solution.circuit_results are lists of length k, entry i belonging to the
\* i-th observable; for a single observable both are single values, not lists.
C7_Original ==
    /\ (Solved /\ req.observable.kind = "list") => ListShape
    /\ (Solved /\ OneRequested)
         => /\ res.solution.observable.shape = "single"
            /\ res.solution.circuit_results.shape = "single"

\* C7 as amended: for a list of k observables both solution.observable and
\* solution.circuit_results are lists of length k, entry i belonging to the
\* i-th observable; for a single observable solution.observable is a single
\* value, and solution.circuit_results is the raw result of that observable: a
\* single expectation when the observable has one circuit, the list of its
\* expectations when the observable's circuits are a list.
C7_Amended ==
    /\ (Solved /\ req.observable.kind = "list") => ListShape
    /\ (Solved /\ OneRequested)
         => /\ res.solution.observable.shape = "single"
            /\ Len(res.solution.observable.items) = 1
            /\ res.solution.observable.items[1][1].of = res.solution.circuit_results
            /\ req.observable.kind = "single"
                 => /\ res.solution.circuit_results.shape
                         = (IF req.observable.items[1].is_list THEN "list" ELSE "single")
                    /\ Len(res.solution.circuit_results.items) = req.observable.items[1].n
            /\ req.observable.kind = "none"
                 => res.solution.circuit_results.shape = "single"

\* a list of two different observables, solved
C7_Witness ==
    /\ Solved
    /\ req.observable.kind = "list"
    /\ Len(req.observable.items) = 2
    /\ req.observable.items[1].id = "average"
    /\ req.observable.items[2].id = "functional"
    /\ Len(res.solution.observable.items) = 2

\* C8: solve with no observable, no observable_circuit and no post_processing
\* evaluates the success-probability default: the result carries an observable
\* value, obtained from the identity on the solution register under the same
\* success-flag projector as the norm estimate.
C8_DefaultObservable ==
    (Solved /\ req.observable.kind = "none"
            /\ req.observable_circuit = "none" /\ req.post_processing = "none")
    => /\ res.solution.observable.shape = "single"
       /\ res.solution.circuit_results.shape = "single"
       /\ res.solution.circuit_results.items[1].operator
            = ObservableOperator(res.construct.layout, "I")

\* the outcome of the same call on a solver just constructed
Fresh ==
    construct_circuit(DecOne, exact_reciprocal, req.matrix, req.vector, req.neg_vals)

\* C9: the register layout and the scaling in force after a call depend on that
\* call's inputs only: they are those the same call yields on a fresh solver,
\* whatever calls were made before on the instance.
C9_OwnScaling ==
    Built
    => /\ res.construct.layout = Fresh.layout
       /\ scaling = Fresh.scaling

\* the projector layout of a full-width operator: "one" on exactly one qubit,
\* "zero" on exactly the nl + na eigenvalue and ancilla qubits, no projector
\* on the nb solution qubits, nb + nl + na + 1 factors in all
ProjectorLayout(operator, layout) ==
    /\ Len(operator) = NumQubits(layout)
    /\ Cardinality({i \in 1..Len(operator) : operator[i] = "one"}) = 1
    /\ Cardinality({i \in 1..Len(operator) : operator[i] = "zero"})
         = layout.nl + layout.na
    /\ Cardinality({i \in 1..Len(operator) : operator[i] \notin {"one", "zero"}})
         = layout.nb

\* C10: the operator of _calculate_norm and the operator of
\* _calculate_observable have the same projector layout on every assembled
\* circuit: one-projector on the flag qubit, zero-projector on the nl + na
\* eigenvalue and ancilla qubits, none on the nb solution qubits.
C10_SameProjectors ==
    (Solved /\ req.observable.kind = "single")
    => /\ ProjectorLayout(res.solution.euclidean_norm[1].operator, res.construct.layout)
       /\ \A j \in 1..Len(res.solution.circuit_results.items) :
             ProjectorLayout(res.solution.circuit_results.items[j].operator,
                             res.construct.layout)

\* construct_circuit went past its input handling on a matrix that declares
\* eigenvalue bounds: it returned, or it failed in the eigenvalue scaling
ScaledWithBounds ==
    /\ Entered
    /\ req.matrix.eigs # NoEigs
    /\ res.construct.raised => res.construct.error = "ArithmeticError"

\* C11: with declared bounds whose lambda_min is below 1e-10 in magnitude,
\* construct_circuit does not fail: lambda_min is replaced by
\* max(1e-10, lambda_max / 1000); and for every declared pair the divisor of
\* the evolution time, stored as the solver's scaling, has magnitude at least
\* 1e-10, so the eigenvalue scaling divides by zero nowhere.
C11_GuardedScaling ==
    ScaledWithBounds
    => /\ ~res.construct.raised
       /\ ~DecLess(DecAbs(res.construct.divisor), Tiny)
       /\ scaling = res.construct.divisor
       /\ DecLess(DecAbs(req.matrix.eigs[1]), Tiny)
            => res.construct.divisor
                 = DecMax(Tiny, DecDiv1000(req.matrix.eigs[2]))

\* _get_delta has been called with the arguments of req
DeltaDone == pc = "done" /\ req.op = "_get_delta"

\* |lambda_min| and |lambda_max| as two integers over a common power of ten
RatioNum == Aligned(DecAbs(req.lambda_min), DecAbs(req.lambda_max))[1]

RatioDen == Aligned(DecAbs(req.lambda_min), DecAbs(req.lambda_max))[2]

\* |lambda_min| * (2^n_l - 1) / |lambda_max| is within 1e-7 of 1
NearOne(n_l) ==
    AbsInt(RatioNum * (Pow(2, n_l) - 1) - RatioDen) <= (RatioDen - 1) \div Pow(10, 7)

\* k is the integer part of |lambda_min| * (2^n_l - 1) / |lambda_max|, or 1
\* when that quantity is within 1e-7 of 1
IsIntegerPart(k, n_l) ==
    IF NearOne(n_l) THEN k = 1
    ELSE /\ k * RatioDen <= RatioNum * (Pow(2, n_l) - 1)
         /\ RatioNum * (Pow(2, n_l) - 1) < (k + 1) * RatioDen

\* the quantity is below 1 and taken as 1
RoundedUp(n_l) == NearOne(n_l) /\ RatioNum * (Pow(2, n_l) - 1) < RatioDen

\* |r - k / 2^bits| * |lambda_max| * 2^bits for the ratio r of req
ErrorTimes(k, bits) == AbsInt(RatioNum * Pow(2, bits) - k * RatioDen)

\* the result of the same call with one more binary digit
NextDelta == get_delta(req.n_l + 1, req.lambda_min, req.lambda_max)

\* the ratio |lambda_min| / lambda_max lies in (0, 1]
RatioInUnit == 0 < RatioNum /\ RatioNum <= RatioDen

\* C12 as claimed: _get_delta returns k / 2^n_l, k the integer part of
\* |lambda_min| (2^n_l - 1) / lambda_max (1 when within 1e-7 of 1) on n_l
\* bits; for a ratio in (0, 1] the representation error never increases when
\* n_l increases; repeated calls return the same value.
C12_Original ==
    (DeltaDone /\ ~res.raised)
    => /\ IsIntegerPart(res.k, req.n_l)
       /\ res.bits = req.n_l
       /\ RatioInUnit
            => /\ NextDelta.bits = req.n_l + 1
               /\ ErrorTimes(NextDelta.k, req.n_l + 1) <= 2 * ErrorTimes(res.k, req.n_l)
       /\ res.previous = [raised |-> res.raised, k |-> res.k, bits |-> res.bits]

\* C12 as amended: for lambda_max # 0, _get_delta returns k / 2^bits, k the
\* integer part of |lambda_min| (2^n_l - 1) / |lambda_max| (1 when within 1e-7
\* of 1) and bits the larger of n_l and the number of binary digits of k, which
\* is n_l whenever |lambda_min| <= |lambda_max|; for a ratio in (0, 1] the
\* representation error does not increase from n_l to n_l + 1 unless at n_l the
\* quantity was below 1 and taken as 1; repeated calls return the same value.
C12_Amended ==
    DeltaDone
    => /\ res.raised <=> req.lambda_max.m = 0
       /\ ~res.raised
            => /\ IsIntegerPart(res.k, req.n_l)
               /\ res.bits = MaxInt(req.n_l, BitLen(res.k))
               /\ RatioNum <= RatioDen => res.bits = req.n_l
               /\ (RatioInUnit /\ ~RoundedUp(req.n_l))
                    => /\ NextDelta.bits = req.n_l + 1
                       /\ ErrorTimes(NextDelta.k, req.n_l + 1)
                            <= 2 * ErrorTimes(res.k, req.n_l)
       /\ res.previous = [raised |-> res.raised, k |-> res.k, bits |-> res.bits]

\* the ratio 1/3 on 4 binary digits, called twice: 5/16, and 10/32 on 5 digits
C12_Witness ==
    /\ DeltaDone
    /\ req.n_l = 4
    /\ req.lambda_min = Dec(1, 0) /\ req.lambda_max = Dec(3, 0)
    /\ res.calls = 2
    /\ res.k = 5 /\ res.bits = 4
    /\ NextDelta.k = 10

\* a is round(num_values^(2/3)): the integer nearest to the cube root of
\* num_values^2
IsBasePoint(a, num_values) ==
    /\ Pow(2 * a - 1, 3) < 8 * num_values * num_values
    /\ 8 * num_values * num_values < Pow(2 * a + 1, 3)

\* the breakpoints bp run from a base point in steps of a factor 5 up to,
\* and end at, num_values - 1: non-empty, strictly increasing, one entry more
\* than the number of intervals, which is at least 1
CoversFromBasePoint(bp, num_values) ==
    /\ Len(bp) >= 2
    /\ IsBasePoint(bp[1], num_values)
    /\ bp[Len(bp)] = num_values - 1
    /\ \A i \in 1..(Len(bp) - 1) : bp[i] < bp[i + 1]
    /\ \A i \in 1..(Len(bp) - 2) : bp[i + 1] = 5 * bp[i]
    /\ bp[1] * Pow(5, Len(bp) - 1) >= num_values - 1

\* C13: in the approximate reciprocal mode, for every eigenvalue register size
\* nl >= 1 the breakpoint list is non-empty and strictly increasing, starts at
\* a = round((2^nl)^(2/3)) and ends at 2^nl - 1, and has num_intervals + 1
\* entries with num_intervals = ceil(log((2^nl - 1)/a)/log(5)) >= 1.
C13_Breakpoints ==
    (Built /\ ~exact_reciprocal)
    => /\ res.construct.layout.nl >= 1
       /\ CoversFromBasePoint(res.construct.breakpoints,
                              Pow(2, res.construct.layout.nl))

====
